---- MODULE Spec2Model ----
(***************************************************************************)
(* A state-machine model of the tinnitus noise player (src/src/main.rs,    *)
(* src/src/utils.rs): the lexer and the token-to-AST parser to_ast, the    *)
(* interleaved sample writer write_data, and the start-up / park / Ctrl-C  *)
(* life cycle of main and run.                                             *)
(***************************************************************************)
EXTENDS Integers, Sequences, FiniteSets, TLC

VARIABLES
    tokens,      \* to_ast: the token sequence handed to to_ast
    pos,         \* to_ast: how many tokens the peekable iterator has yielded
    sounds,      \* to_ast: the local Vec<Vec<Sound>>
    astResult    \* to_ast: "idle", "running", "Ok", or the bail! message

VARIABLES
    output,      \* write_data: the interleaved slice `output: &mut [T]`
    writes,      \* write_data: per slot, how often it has been assigned (history)
    channels,    \* write_data: the `channels` argument
    wpc,         \* write_data: "idle", "frames" (outer for), "slots" (inner for), "done", "panicked"
    frame,       \* write_data: index of the current chunk of output.chunks_mut(channels)
    chan,        \* write_data: `channel`, the enumerate() index inside the frame
    left,        \* write_data: `left` of the current frame, after T::from_sample
    right,       \* write_data: `right` of the current frame, after T::from_sample
    sampleCalls, \* how many times next_sample (c.get_stereo) has been called so far
    baseCalls    \* sampleCalls when the current write_data invocation began (history)

VARIABLES
    input,       \* main: the command-line arguments joined by " ", as characters
    mainPc,      \* main/run: where the main thread is
    lexResult,   \* main: "pending", "Ok" or "Err", the outcome of lex.try_collect()
    net,         \* run: `res`, the compiled graph (a stack of stage nets)
    device,      \* main: TRUE once default_output_device() has returned a device
    stream,      \* run: "none", "built", "playing", "dropped"
    plays,       \* run: how many times stream.play() has succeeded (history)
    cfgChannels, \* run: config.channels of the device's default output config
    handlerSet,  \* run: TRUE once ctrlc::set_handler has installed the handler
    parkToken,   \* the main thread's park token (set by unpark, consumed by park)
    unparks,     \* how many times the handler has called handle.unpark() (history)
    pendingSig,  \* interrupts delivered to the ctrlc thread and not yet handled
    interrupts   \* how many interrupts the environment has sent (history)

VARIABLES
    loudness     \* the Control Channel's loudness, a binary floating-point value

parseVars == <<tokens, pos, sounds, astResult>>

writeVars == <<output, writes, channels, wpc, frame, chan, left, right, sampleCalls, baseCalls>>

mainVars == <<input, mainPc, lexResult, net, device, stream, plays, cfgChannels,
              handlerSet, parkToken, unparks, pendingSig, interrupts>>

loudVars == <<loudness>>

vars == <<parseVars, writeVars, mainVars, loudVars>>

(***************************************************************************)
(* Bounds of the model.                                                    *)
(***************************************************************************)
\* longest token sequence handed to to_ast directly
MaxTokens == 4

\* longest output buffer of a stand-alone write_data invocation
MaxSlots == 6

\* largest channel count of a stand-alone write_data invocation
MaxChannels == 4

\* most command-line arguments given to main
MaxArgs == 2

\* most frames the device asks for in one callback of the running program
MaxCbFrames == 1

\* largest channel count of the running program's output device
MaxCbChannels == 2

\* most get_stereo calls the running program's callbacks make altogether
MaxTicks == 1

\* most interrupts the environment sends
MaxInterrupts == 2

(***************************************************************************)
(* enum Token (main.rs 90-115) and enum Sound (main.rs 23-30).             *)
(***************************************************************************)
\* an f64 written as the decimal m / 10^e, with no trailing zero in m when e > 0
Dec(m, e) == [m |-> m, e |-> e]

NoVal == [m |-> 0, e |-> 0]

Tok(t) == [type |-> t, val |-> NoVal]

Number(v) == [type |-> "Number", val |-> v]

\* frequencies of the Number tokens handed to to_ast directly
Freqs == {Dec(440, 0), Dec(100, 0)}

Token == {Tok("Sin"), Tok("White"), Tok("Brown"), Tok("Pink"), Tok("Pipe")}
            \cup {Number(v) : v \in Freqs}

Snd(k) == [kind |-> k, freq |-> NoVal]

SoundSin(f) == [kind |-> "Sin", freq |-> f]

(***************************************************************************)
(* The lexer that #[derive(Logos)] generates for Token (main.rs 90-115),   *)
(* with the callbacks parse_int and parse_float (main.rs 54-64).           *)
(***************************************************************************)
\* #[logos(skip r"[ \t\n\f]+")]
Whitespace == {" ", "\t", "\n", "\f"}

Digits == <<"0", "1", "2", "3", "4", "5", "6", "7", "8", "9">>

IsDigit(c) == \E d \in 1..10 : Digits[d] = c

DigitVal(c) == (CHOOSE d \in 1..10 : Digits[d] = c) - 1

\* the #[token(...)] literals, in declaration order
Keywords ==
    << [text |-> <<"s", "i", "n">>, tok |-> Tok("Sin")],
       [text |-> <<"w", "h", "i", "t", "e">>, tok |-> Tok("White")],
       [text |-> <<"b", "r", "o", "w", "n">>, tok |-> Tok("Brown")],
       [text |-> <<"p", "i", "n", "k">>, tok |-> Tok("Pink")],
       [text |-> <<"|">>, tok |-> Tok("Pipe")] >>

StartsWith(s, i, text) ==
    /\ i + Len(text) - 1 <= Len(s)
    /\ SubSeq(s, i, i + Len(text) - 1) = text

\* first index >= i of s that holds no digit
RECURSIVE DigitsEnd(_, _)
DigitsEnd(s, i) == IF i <= Len(s) /\ IsDigit(s[i]) THEN DigitsEnd(s, i + 1) ELSE i

\* the value of the digit string s[i..j-1], continuing from acc
RECURSIVE DigitsValue(_, _, _, _)
DigitsValue(s, i, j, acc) ==
    IF i >= j THEN acc ELSE DigitsValue(s, i + 1, j, 10 * acc + DigitVal(s[i]))

RECURSIVE Normal(_)
Normal(v) == IF v.e > 0 /\ v.m % 10 = 0 THEN Normal(Dec(v.m \div 10, v.e - 1)) ELSE v

\* parse_int: slice.parse::<u64>()? as f64, for the slice s[i..j-1].  The parse
\* fails only for a value above u64::MAX, which takes 20 digits or more: no
\* command line of the model is that long.
parse_int(s, i, j) == Dec(DigitsValue(s, i, j, 0), 0)

\* parse_float: slice.parse::<f64>()?, for the slice s[i..k-1] with its "." at
\* j; str::parse::<f64> accepts every match of [0-9]+\.[0-9]* ("4." included)
parse_float(s, i, j, k) ==
    Normal(Dec(DigitsValue(s, j + 1, k, DigitsValue(s, i, j, 0)), k - j - 1))

\* the tokens of s from index i on, after acc; the first error ends the lexing
RECURSIVE LexFrom(_, _, _)
LexFrom(s, i, acc) ==
    IF i > Len(s) THEN [ok |-> TRUE, toks |-> acc]
    ELSE IF s[i] \in Whitespace THEN LexFrom(s, i + 1, acc)
    ELSE IF IsDigit(s[i]) THEN
        LET j == DigitsEnd(s, i)
        IN IF j <= Len(s) /\ s[j] = "."
           THEN \* "[0-9]+\\.[0-9]*" is the longer match
                LET k == DigitsEnd(s, j + 1)
                IN LexFrom(s, k, Append(acc, Number(parse_float(s, i, j, k))))
           ELSE LexFrom(s, j, Append(acc, Number(parse_int(s, i, j))))
    ELSE IF \E n \in 1..Len(Keywords) : StartsWith(s, i, Keywords[n].text) THEN
        LET n == CHOOSE n \in 1..Len(Keywords) : StartsWith(s, i, Keywords[n].text)
        IN LexFrom(s, i + Len(Keywords[n].text), Append(acc, Keywords[n].tok))
    ELSE [ok |-> FALSE, toks |-> <<>>]

\* Token::lexer(&input).try_collect()
Lex(s) == LexFrom(s, 1, <<>>)

\* std::env::args().skip(1).join(" ")
RECURSIVE JoinArgs(_)
JoinArgs(args) ==
    IF args = <<>> THEN <<>>
    ELSE IF Len(args) = 1 THEN args[1]
    ELSE args[1] \o <<" ">> \o JoinArgs(Tail(args))

\* the words the modelled command lines are made of
Words ==
    { <<"s", "i", "n">>, <<"w", "h", "i", "t", "e">>, <<"|">>, <<"4", "4", "0">>,
      <<"4", ".", "5", "0">>, <<"s", "i", "n", "7">>, <<"x">>, <<"p", "i", "n", "k", "|">> }

(***************************************************************************)
(* to_ast (main.rs 117-148), one action per arm of the match inside the    *)
(* `while let Some(on) = peekable.next()` loop.  The actions are steps of  *)
(* whichever thread called to_ast; every other thread's state is left      *)
(* alone.                                                                  *)
(***************************************************************************)
\* `on`: the token peekable.next() yields (used only when pos < Len(tokens))
On == tokens[pos + 1]

\* `next`: peekable.peek().copied() after `on` was taken; None at the end
HasNext == pos + 2 <= Len(tokens)

NextTok == tokens[pos + 2]

\* sounds.last_mut().unwrap().push(s)
PushSound(ss, s) == [ss EXCEPT ![Len(ss)] = Append(@, s)]

\* a Pipe arm that forgets to open the new stage
PushStageForgotten(ss) == ss

\* sounds.push(vec![])
PushStage(ss) == Append(ss, <<>>)

\* a let-else that accepts any following token as the argument
NextIsSome == HasNext

\* the let-else pattern `Some(Token::Number(num)) = next`
NextIsNumber == HasNext /\ NextTok.type = "Number"

\* a Sin arm without the extra peekable.next()
AfterSinNoSkip(p) == p + 1

\* position after the Sin arm: `on` taken, then the extra peekable.next()
AfterSin(p) == p + 2

\* bail!(msg): to_ast returns Err(msg); the local `sounds` is dropped
Bail(msg) ==
    /\ astResult' = msg
    /\ sounds' = <<>>
    /\ UNCHANGED <<tokens, pos>>

Looping == astResult = "running" /\ pos < Len(tokens)

ParseFrame == UNCHANGED <<writeVars, mainVars, loudVars>>

ArmSin ==
    /\ Looping
    /\ On.type = "Sin"
    /\ \/ /\ NextIsNumber
          /\ sounds' = PushSound(sounds, SoundSin(NextTok.val))
          /\ pos' = AfterSin(pos)
          /\ UNCHANGED <<tokens, astResult>>
       \/ /\ ~NextIsNumber
          /\ Bail("need hz for sin")
    /\ ParseFrame

ArmPipe ==
    /\ Looping
    /\ On.type = "Pipe"
    /\ sounds' = PushStage(sounds)
    /\ pos' = pos + 1
    /\ UNCHANGED <<tokens, astResult>>
    /\ ParseFrame

ArmNoise(t) ==
    /\ Looping
    /\ On.type = t
    /\ sounds' = PushSound(sounds, Snd(t))
    /\ pos' = pos + 1
    /\ UNCHANGED <<tokens, astResult>>
    /\ ParseFrame

ArmWhite == ArmNoise("White")

ArmBrown == ArmNoise("Brown")

ArmPink == ArmNoise("Pink")

ArmNumber ==
    /\ Looping
    /\ On.type = "Number"
    /\ Bail("unused number")
    /\ ParseFrame

\* peekable.next() returns None: the loop ends and to_ast returns Ok(sounds)
ReturnOk ==
    /\ astResult = "running"
    /\ pos >= Len(tokens)
    /\ astResult' = "Ok"
    /\ UNCHANGED <<tokens, pos, sounds>>
    /\ ParseFrame

\* to_ast entered with the token sequence toks: `let mut sounds = vec![Vec::new()]`
ParseEntry(toks) ==
    /\ tokens = toks
    /\ pos = 0
    /\ sounds = << <<>> >>
    /\ astResult = "running"

\* to_ast has not been called
ParseIdle ==
    /\ tokens = <<>>
    /\ pos = 0
    /\ sounds = <<>>
    /\ astResult = "idle"

(***************************************************************************)
(* write_data (main.rs 228-246; utils.rs 3-21 is the same function).       *)
(***************************************************************************)
\* content of a slot the callback has not assigned yet
Stale == <<"stale", 0>>

\* T::from_sample(x): the device-format sample made from the f64 x
FromSample(x) == <<"T", x>>

\* next_sample(): the pair of the k-th call (k counted from 0); the left and
\* right values of all calls differ from one another
NextSample(k) == <<2 * k, 2 * k + 1>>

MinOf(a, b) == IF a <= b THEN a ELSE b

\* chunks that only cover a stereo pair
ChunkLenStereo(buf, c, f) == MinOf(MinOf(c, 2), Len(buf) - f * c)

\* length of chunk f of buf.chunks_mut(c): c, except for a shorter last chunk
ChunkLen(buf, c, f) == MinOf(c, Len(buf) - f * c)

\* a parity test with the two sides exchanged
PicksLeftSwapped(channel) == channel % 2 = 1

\* `channel & 0b1 == 0`
PicksLeft(channel) == channel % 2 = 0

WriteFrame == UNCHANGED <<parseVars, mainVars, loudVars>>

\* chunks_mut(0) panics ("chunk size must be non-zero")
ChunksPanic ==
    /\ wpc = "frames"
    /\ channels = 0
    /\ wpc' = "panicked"
    /\ UNCHANGED <<output, writes, channels, frame, chan, left, right, sampleCalls, baseCalls>>
    /\ WriteFrame

\* the outer for takes the next chunk and calls next_sample once
NextFrame ==
    /\ wpc = "frames"
    /\ channels > 0
    /\ frame * channels < Len(output)
    /\ LET pair == NextSample(sampleCalls)
       IN /\ left' = FromSample(pair[1])
          /\ right' = FromSample(pair[2])
    /\ sampleCalls' = sampleCalls + 1
    /\ chan' = 0
    /\ wpc' = "slots"
    /\ UNCHANGED <<output, writes, channels, frame, baseCalls>>
    /\ WriteFrame

\* one iteration of the inner for: *sample = left or right
WriteSlot ==
    /\ wpc = "slots"
    /\ chan < ChunkLen(output, channels, frame)
    /\ LET idx == frame * channels + chan + 1
       IN /\ output' = [output EXCEPT ![idx] = IF PicksLeft(chan) THEN left ELSE right]
          /\ writes' = [writes EXCEPT ![idx] = @ + 1]
    /\ chan' = chan + 1
    /\ UNCHANGED <<channels, wpc, frame, left, right, sampleCalls, baseCalls>>
    /\ WriteFrame

\* the inner for is exhausted
FrameDone ==
    /\ wpc = "slots"
    /\ chan >= ChunkLen(output, channels, frame)
    /\ frame' = frame + 1
    /\ wpc' = "frames"
    /\ UNCHANGED <<output, writes, channels, chan, left, right, sampleCalls, baseCalls>>
    /\ WriteFrame

\* the outer for is exhausted: write_data returns
WriteReturn ==
    /\ wpc = "frames"
    /\ channels > 0
    /\ frame * channels >= Len(output)
    /\ wpc' = "done"
    /\ UNCHANGED <<output, writes, channels, frame, chan, left, right, sampleCalls, baseCalls>>
    /\ WriteFrame

\* no write_data invocation exists
WriteIdle ==
    /\ output = <<>>
    /\ writes = <<>>
    /\ channels = 0
    /\ wpc = "idle"
    /\ frame = 0
    /\ chan = 0
    /\ left = Stale
    /\ right = Stale
    /\ sampleCalls = 0
    /\ baseCalls = 0

(***************************************************************************)
(* run's graph construction (main.rs 165-197).  The fundsp units are kept  *)
(* as terms: what a unit computes is the library's business.               *)
(***************************************************************************)
\* the match of combine's closure: the boxed unit of one Sound
Unit(sound) ==
    CASE sound.kind = "Sin" -> <<"sine_hz", sound.freq>>
      [] sound.kind = "White" -> <<"white">>
      [] sound.kind = "Brown" -> <<"brown">>
      [] sound.kind = "Pink" -> <<"pink">>
      [] OTHER -> <<"Net64::default">>

\* combine: the wrapped units reduced with `+`, or Net64::default() for none
combine(stage) ==
    IF stage = <<>>
    THEN [op |-> "Net64::default", units |-> <<>>]
    ELSE [op |-> "+", units |-> [i \in 1..Len(stage) |-> Unit(stage[i])]]

\* ast.into_iter().map(combine).reduce(|a, b| a | b): the stage nets, stacked
Compile(ast) == [i \in 1..Len(ast) |-> combine(ast[i])]

(***************************************************************************)
(* main (main.rs 66-88) and run (main.rs 154-226): the main thread.        *)
(***************************************************************************)
\* the process has neither returned from main, panicked, nor been killed
Alive == mainPc \notin {"panicked", "returned", "killed"}

MainFrame == UNCHANGED <<writeVars, loudVars>>

\* an unwrap that falls back to an empty AST instead of panicking
UnwrapAstOrDefault(result) == "device"

\* to_ast(tokens).unwrap(): where main goes on after to_ast returned
UnwrapAst(result) == IF result = "Ok" THEN "device" ELSE "panicked"

\* Token::lexer(&input); lex.try_collect().unwrap(); then to_ast is entered
MainLex ==
    /\ mainPc = "lex"
    /\ LET r == Lex(input)
       IN \/ /\ r.ok
             /\ lexResult' = "Ok"
             /\ tokens' = r.toks
             /\ pos' = 0
             /\ sounds' = << <<>> >>
             /\ astResult' = "running"
             /\ mainPc' = "to_ast"
          \/ /\ ~r.ok
             /\ lexResult' = "Err"
             /\ mainPc' = "panicked"
             /\ UNCHANGED parseVars
    /\ UNCHANGED <<input, net, device, stream, plays, cfgChannels, handlerSet,
                   parkToken, unparks, pendingSig, interrupts>>
    /\ MainFrame

\* let ast = to_ast(tokens).unwrap(); println!("{:?}", ast)
MainUnwrapAst ==
    /\ mainPc = "to_ast"
    /\ astResult \notin {"idle", "running"}
    /\ mainPc' = UnwrapAst(astResult)
    /\ UNCHANGED <<input, lexResult, net, device, stream, plays, cfgChannels, handlerSet,
                   parkToken, unparks, pendingSig, interrupts>>
    /\ UNCHANGED parseVars
    /\ MainFrame

\* cpal::default_host(); host.default_output_device().expect(...)
MainDevice ==
    /\ mainPc = "device"
    /\ \E found \in BOOLEAN :
          /\ device' = found
          /\ mainPc' = IF found THEN "config" ELSE "panicked"
    /\ UNCHANGED <<input, lexResult, net, stream, plays, cfgChannels, handlerSet,
                   parkToken, unparks, pendingSig, interrupts>>
    /\ UNCHANGED parseVars
    /\ MainFrame

\* device.default_output_config().unwrap(); match config.sample_format()
MainConfig ==
    /\ mainPc = "config"
    /\ \/ \E c \in 1..MaxCbChannels, fmt \in {"F32", "I16", "U16"} :
             /\ cfgChannels' = c
             /\ mainPc' = "compile"
       \/ \E failure \in {"default_output_config failed", "Unsupported format"} :
             /\ mainPc' = "panicked"
             /\ UNCHANGED cfgChannels
    /\ UNCHANGED <<input, lexResult, net, device, stream, plays, handlerSet,
                   parkToken, unparks, pendingSig, interrupts>>
    /\ UNCHANGED parseVars
    /\ MainFrame

\* run: res = ast.into_iter().map(combine).reduce(..).unwrap(); set_sample_rate; allocate
RunCompile ==
    /\ mainPc = "compile"
    /\ net' = Compile(sounds)
    /\ mainPc' = IF sounds = <<>> THEN "panicked" ELSE "build"
    /\ UNCHANGED <<input, lexResult, device, stream, plays, cfgChannels, handlerSet,
                   parkToken, unparks, pendingSig, interrupts>>
    /\ UNCHANGED parseVars
    /\ MainFrame

\* device.build_output_stream(...)?  An Err returns from run; main's unwrap panics
RunBuild ==
    /\ mainPc = "build"
    /\ \E ok \in BOOLEAN :
          /\ stream' = IF ok THEN "built" ELSE stream
          /\ mainPc' = IF ok THEN "play" ELSE "panicked"
    /\ UNCHANGED <<input, lexResult, net, device, plays, cfgChannels, handlerSet,
                   parkToken, unparks, pendingSig, interrupts>>
    /\ UNCHANGED parseVars
    /\ MainFrame

\* stream.play()?  An Err returns from run, which drops the stream
RunPlay ==
    /\ mainPc = "play"
    /\ \E ok \in BOOLEAN :
          /\ stream' = IF ok THEN "playing" ELSE "dropped"
          /\ plays' = IF ok THEN plays + 1 ELSE plays
          /\ mainPc' = IF ok THEN "set_handler" ELSE "panicked"
    /\ UNCHANGED <<input, lexResult, net, device, cfgChannels, handlerSet,
                   parkToken, unparks, pendingSig, interrupts>>
    /\ UNCHANGED parseVars
    /\ MainFrame

\* let handle = thread::current(); ctrlc::set_handler(..).expect(..)
RunSetHandler ==
    /\ mainPc = "set_handler"
    /\ \E ok \in BOOLEAN :
          /\ handlerSet' = ok
          /\ stream' = IF ok THEN stream ELSE "dropped"
          /\ mainPc' = IF ok THEN "waiting" ELSE "panicked"
    /\ UNCHANGED <<input, lexResult, net, device, plays, cfgChannels,
                   parkToken, unparks, pendingSig, interrupts>>
    /\ UNCHANGED parseVars
    /\ MainFrame

\* println!("Waiting for Ctrl-C..."); the thread then calls thread::park()
RunPrintWaiting ==
    /\ mainPc = "waiting"
    /\ mainPc' = "park"
    /\ UNCHANGED <<input, lexResult, net, device, stream, plays, cfgChannels, handlerSet,
                   parkToken, unparks, pendingSig, interrupts>>
    /\ UNCHANGED parseVars
    /\ MainFrame

\* thread::park() finds the token, consumes it and returns
ParkReturn ==
    /\ mainPc = "park"
    /\ parkToken
    /\ parkToken' = FALSE
    /\ mainPc' = "exited"
    /\ UNCHANGED <<input, lexResult, net, device, stream, plays, cfgChannels, handlerSet,
                   unparks, pendingSig, interrupts>>
    /\ UNCHANGED parseVars
    /\ MainFrame

\* thread::park() returns spuriously, without a token (std: "may return
\* spuriously"); the code calls park once, outside any loop
ParkSpurious ==
    /\ mainPc = "park"
    /\ ~parkToken
    /\ mainPc' = "exited"
    /\ UNCHANGED <<input, lexResult, net, device, stream, plays, cfgChannels, handlerSet,
                   parkToken, unparks, pendingSig, interrupts>>
    /\ UNCHANGED parseVars
    /\ MainFrame

\* println!("Exited successfully."); Ok(()): the stream is dropped, main returns
RunReturn ==
    /\ mainPc = "exited"
    /\ stream' = "dropped"
    /\ mainPc' = "returned"
    /\ UNCHANGED <<input, lexResult, net, device, plays, cfgChannels, handlerSet,
                   parkToken, unparks, pendingSig, interrupts>>
    /\ UNCHANGED parseVars
    /\ MainFrame

(***************************************************************************)
(* The other threads of the running program: the interrupt handler         *)
(* (main.rs 215-218) and the device's audio callback (main.rs 205-207).    *)
(***************************************************************************)
\* an unpark that only wakes a thread that is parked already
UnparkIfParked(token, pc) == token \/ pc = "park"

\* handle.unpark(): makes the token available, whether or not the thread is parked
Unpark(token, pc) == TRUE

\* the environment sends an interrupt: to the handler's thread once the
\* handler is installed, and with the default disposition (the process is
\* terminated) before that
Interrupt ==
    /\ Alive
    /\ interrupts < MaxInterrupts
    /\ interrupts' = interrupts + 1
    /\ \/ /\ handlerSet
          /\ pendingSig' = pendingSig + 1
          /\ UNCHANGED mainPc
       \/ /\ ~handlerSet
          /\ mainPc' = "killed"
          /\ UNCHANGED pendingSig
    /\ UNCHANGED <<input, lexResult, net, device, stream, plays, cfgChannels, handlerSet,
                   parkToken, unparks>>
    /\ UNCHANGED <<parseVars, writeVars, loudVars>>

\* the handler closure: println!("Received Ctrl-C, exiting..."); handle.unpark()
HandlerRun ==
    /\ Alive
    /\ pendingSig > 0
    /\ pendingSig' = pendingSig - 1
    /\ unparks' = unparks + 1
    /\ parkToken' = Unpark(parkToken, mainPc)
    /\ UNCHANGED <<input, mainPc, lexResult, net, device, stream, plays, cfgChannels,
                   handlerSet, interrupts>>
    /\ UNCHANGED <<parseVars, writeVars, loudVars>>

\* the device invokes the data callback on a buffer of n frames, which calls
\* write_data(data, channels, &mut next_value)
CallbackStart ==
    /\ Alive
    /\ stream = "playing"
    /\ wpc \in {"idle", "done"}
    /\ \E n \in 0..MaxCbFrames :
          /\ sampleCalls + n <= MaxTicks
          /\ output' = [i \in 1..(n * cfgChannels) |-> Stale]
          /\ writes' = [i \in 1..(n * cfgChannels) |-> 0]
    /\ channels' = cfgChannels
    /\ wpc' = "frames"
    /\ frame' = 0
    /\ chan' = 0
    /\ baseCalls' = sampleCalls
    /\ UNCHANGED <<left, right, sampleCalls>>
    /\ UNCHANGED <<parseVars, mainVars, loudVars>>

(***************************************************************************)
(* The Control Channel's loudness and the two volume events (spec 4.5).    *)
(* The loudness scales the f64 samples of next_sample, so it is a binary   *)
(* floating-point number: k * 2^-e with k odd, or zero.                    *)
(***************************************************************************)
\* the smallest positive f64 is 2^-1074
MinExp == 1074

Flt(k, e) == [k |-> k, e |-> e]

Zero == Flt(0, 0)

One == Flt(1, 0)

RECURSIVE Pow2(_)
Pow2(n) == IF n = 0 THEN 1 ELSE 2 * Pow2(n - 1)

\* k * 2^-e with the factors of two moved from k into the exponent
RECURSIVE Norm(_, _)
Norm(k, e) ==
    IF k = 0 THEN Zero
    ELSE IF k % 2 = 0 /\ e > 0 THEN Norm(k \div 2, e - 1)
    ELSE Flt(k, e)

\* x > 1.0, for the mantissas of the model (k < 2^30)
AboveOne(x) == x.e <= 30 /\ x.k > Pow2(x.e)

\* x * 2.0: exact
Twice(x) == IF x.e > 0 THEN Flt(x.k, x.e - 1) ELSE Flt(2 * x.k, 0)

\* x * 0.5: exact down to 2^-1074, below that rounded to the nearest multiple
\* of 2^-1074, ties to the even one
Half(x) ==
    IF x.k = 0 THEN Zero
    ELSE IF x.e < MinExp THEN Flt(x.k, x.e + 1)
    ELSE LET lo == (x.k - 1) \div 2
             hi == (x.k + 1) \div 2
         IN Norm(IF lo % 2 = 0 THEN lo ELSE hi, MinExp)

\* volume-up: loudness <- min(loudness * 2, 1.0)
VolumeUpValue(x) == IF AboveOne(Twice(x)) THEN One ELSE Twice(x)

\* volume-down: loudness <- loudness * 0.5
VolumeDownValue(x) == Half(x)

LoudFrame == UNCHANGED <<parseVars, writeVars, mainVars>>

VolumeUp ==
    /\ loudness' = VolumeUpValue(loudness)
    /\ loudness' # loudness
    /\ LoudFrame

VolumeDown ==
    /\ loudness' = VolumeDownValue(loudness)
    /\ loudness' # loudness
    /\ LoudFrame

\* the loudness values the sessions of the model start from: 1, 3/4, 1/2, 5/8
StartLoudness == {One, Flt(3, 2), Flt(1, 1), Flt(5, 3)}

(***************************************************************************)
(* Specifications.                                                         *)
(***************************************************************************)
RECURSIVE SeqsUpTo(_, _)
SeqsUpTo(S, n) ==
    IF n = 0 THEN {<<>>}
    ELSE LET shorter == SeqsUpTo(S, n - 1)
         IN shorter \cup {Append(s, x) : s \in {t \in shorter : Len(t) = n - 1}, x \in S}

\* main has not been started
MainIdle ==
    /\ input = <<>>
    /\ mainPc = "idle"
    /\ lexResult = "pending"
    /\ net = <<>>
    /\ device = FALSE
    /\ stream = "none"
    /\ plays = 0
    /\ cfgChannels = 0
    /\ handlerSet = FALSE
    /\ parkToken = FALSE
    /\ unparks = 0
    /\ pendingSig = 0
    /\ interrupts = 0

LoudIdle == loudness = One

to_ast == ArmSin \/ ArmPipe \/ ArmWhite \/ ArmBrown \/ ArmPink \/ ArmNumber \/ ReturnOk

write_data == ChunksPanic \/ NextFrame \/ WriteSlot \/ FrameDone \/ WriteReturn

\* to_ast called on any token sequence of at most MaxTokens tokens
InitParse ==
    /\ \E toks \in SeqsUpTo(Token, MaxTokens) : ParseEntry(toks)
    /\ WriteIdle
    /\ MainIdle
    /\ LoudIdle

NextParse ==
    \/ ArmSin
    \/ ArmPipe
    \/ ArmWhite
    \/ ArmBrown
    \/ ArmPink
    \/ ArmNumber
    \/ ReturnOk

SpecParse == InitParse /\ [][NextParse]_vars

\* write_data called once, on any buffer of at most MaxSlots slots
InitWrite ==
    /\ \E len \in 0..MaxSlots, c \in 0..MaxChannels, calls \in 0..1 :
          /\ output = [i \in 1..len |-> Stale]
          /\ writes = [i \in 1..len |-> 0]
          /\ channels = c
          /\ sampleCalls = calls
          /\ baseCalls = calls
    /\ wpc = "frames"
    /\ frame = 0
    /\ chan = 0
    /\ left = Stale
    /\ right = Stale
    /\ ParseIdle
    /\ MainIdle
    /\ LoudIdle

NextWrite ==
    \/ ChunksPanic
    \/ NextFrame
    \/ WriteSlot
    \/ FrameDone
    \/ WriteReturn

SpecWrite == InitWrite /\ [][NextWrite]_vars

\* the program started on any command line of at most MaxArgs words
InitMain ==
    /\ \E args \in SeqsUpTo(Words, MaxArgs) : input = JoinArgs(args)
    /\ mainPc = "lex"
    /\ lexResult = "pending"
    /\ net = <<>>
    /\ device = FALSE
    /\ stream = "none"
    /\ plays = 0
    /\ cfgChannels = 0
    /\ handlerSet = FALSE
    /\ parkToken = FALSE
    /\ unparks = 0
    /\ pendingSig = 0
    /\ interrupts = 0
    /\ ParseIdle
    /\ WriteIdle
    /\ LoudIdle

NextMain ==
    \/ MainLex
    \/ ArmSin
    \/ ArmPipe
    \/ ArmWhite
    \/ ArmBrown
    \/ ArmPink
    \/ ArmNumber
    \/ ReturnOk
    \/ MainUnwrapAst
    \/ MainDevice
    \/ MainConfig
    \/ RunCompile
    \/ RunBuild
    \/ RunPlay
    \/ RunSetHandler
    \/ RunPrintWaiting
    \/ ParkReturn
    \/ ParkSpurious
    \/ RunReturn
    \/ Interrupt
    \/ HandlerRun
    \/ CallbackStart
    \/ NextFrame
    \/ WriteSlot
    \/ FrameDone
    \/ WriteReturn

SpecMain == InitMain /\ [][NextMain]_vars

\* the threads are scheduled: the main thread goes on whenever it can, and
\* the handler's thread runs the handler for every interrupt it was sent
SpecLive ==
    /\ InitMain
    /\ [][NextMain]_vars
    /\ WF_vars(RunPrintWaiting)
    /\ WF_vars(ParkReturn)
    /\ WF_vars(RunReturn)
    /\ WF_vars(HandlerRun)

\* a session's volume events, from any starting loudness in (0, 1]
InitLoud ==
    /\ loudness \in StartLoudness
    /\ ParseIdle
    /\ WriteIdle
    /\ MainIdle

NextLoud == VolumeUp \/ VolumeDown

SpecLoud == InitLoud /\ [][NextLoud]_vars

(***************************************************************************)
(* Properties of to_ast, checked under SpecParse.                          *)
(***************************************************************************)
Finished == astResult \notin {"idle", "running"}

Failed == astResult \in {"need hz for sin", "unused number"}

PipePos == {i \in 1..Len(tokens) : tokens[i].type = "Pipe"}

\* position of the k-th Pipe; 0 before the first, Len+1 after the last
Boundary(k) ==
    IF k = 0 THEN 0
    ELSE IF k > Cardinality(PipePos) THEN Len(tokens) + 1
    ELSE CHOOSE p \in PipePos : Cardinality({q \in PipePos : q <= p}) = k

\* the tokens between the (i-1)-th and the i-th Pipe
Segment(i) == SubSeq(tokens, Boundary(i - 1) + 1, Boundary(i) - 1)

RECURSIVE AtomsOf(_)
AtomsOf(seg) ==
    IF seg = <<>> THEN <<>>
    ELSE IF seg[1].type = "Sin" /\ Len(seg) >= 2 /\ seg[2].type = "Number"
         THEN <<SoundSin(seg[2].val)>> \o AtomsOf(SubSeq(seg, 3, Len(seg)))
    ELSE IF seg[1].type \in {"White", "Brown", "Pink"}
         THEN <<Snd(seg[1].type)>> \o AtomsOf(Tail(seg))
    ELSE AtomsOf(Tail(seg))

\* C1: whenever to_ast succeeds, the Pipeline is the token sequence split at
\* its Pipe tokens: (number of Pipes + 1) stages, at least one, and stage i
\* holds in source order the Sine(n) / White / Brown / Pink atoms found
\* between the (i-1)-th and the i-th Pipe.
C1_PipelineIsSplitAtPipes ==
    astResult = "Ok" =>
        /\ Len(sounds) = Cardinality(PipePos) + 1
        /\ Len(sounds) >= 1
        /\ \A i \in 1..Len(sounds) : sounds[i] = AtomsOf(Segment(i))

\* "sin 440 | white" has been parsed into [[Sine(440.0)], [White]]
C1_Witness ==
    /\ astResult = "Ok"
    /\ tokens = <<Tok("Sin"), Number(Dec(440, 0)), Tok("Pipe"), Tok("White")>>
    /\ sounds = << <<SoundSin(Dec(440, 0))>>, <<Snd("White")>> >>

\* a Sin that is not immediately followed by a Number
BadSin(i) ==
    /\ tokens[i].type = "Sin"
    /\ (i = Len(tokens) \/ tokens[i + 1].type # "Number")

\* a Number that is not the argument of the Sin immediately before it
StrayNumber(i) ==
    /\ tokens[i].type = "Number"
    /\ (i = 1 \/ tokens[i - 1].type # "Sin")

BadSins == {i \in 1..Len(tokens) : BadSin(i)}

StrayNumbers == {i \in 1..Len(tokens) : StrayNumber(i)}

Min(S) == CHOOSE x \in S : \A y \in S : x <= y

\* the first offending token is a Sin without argument
BadSinFirst ==
    /\ BadSins # {}
    /\ (StrayNumbers = {} \/ Min(BadSins) < Min(StrayNumbers))

\* the first offending token is a stray Number
StrayNumberFirst ==
    /\ StrayNumbers # {}
    /\ (BadSins = {} \/ Min(StrayNumbers) < Min(BadSins))

\* C2 as stated: to_ast fails with the missing-argument error whenever some
\* Sin is not immediately followed by a Number, wherever it occurs.
C2_Original ==
    (Finished /\ BadSins # {}) => (astResult = "need hz for sin" /\ sounds = <<>>)

\* C2 amended: whenever some Sin is not immediately followed by a Number,
\* to_ast fails and returns no Pipeline; the error is the missing-argument
\* error exactly when no stray Number occurs before the first such Sin, and
\* the unexpected-token error otherwise.
C2_SinWithoutNumberFails ==
    (Finished /\ BadSins # {}) =>
        /\ Failed
        /\ sounds = <<>>
        /\ (astResult = "need hz for sin") <=> BadSinFirst

\* "white | sin |": a Sin followed by Pipe in the middle of the sequence
C2_Witness ==
    /\ astResult = "need hz for sin"
    /\ tokens = <<Tok("White"), Tok("Pipe"), Tok("Sin"), Tok("Pipe")>>

\* C3 as stated: to_ast fails with the unexpected-token error whenever some
\* Number is not the argument of the Sin immediately before it, and a Number
\* directly following a Sin never raises this error.
C3_Original ==
    /\ (Finished /\ StrayNumbers # {}) => astResult = "unused number"
    /\ astResult = "unused number" => StrayNumber(pos + 1)

\* C3 amended: whenever some Number is not the argument of the Sin
\* immediately before it, to_ast fails; the error is the unexpected-token
\* error exactly when no Sin lacking its Number occurs before the first such
\* Number, and the missing-argument error otherwise; the token blamed by the
\* unexpected-token error is never a Number directly following a Sin.
C3_StrayNumberFails ==
    /\ (Finished /\ StrayNumbers # {}) =>
            /\ Failed
            /\ sounds = <<>>
            /\ (astResult = "unused number") <=> StrayNumberFirst
    /\ astResult = "unused number" => StrayNumber(pos + 1)

\* "sin 440 100": the second number after "sin N" was rejected, the first consumed
C3_Witness ==
    /\ astResult = "unused number"
    /\ tokens = <<Tok("Sin"), Number(Dec(440, 0)), Number(Dec(100, 0))>>
    /\ pos = 2

(***************************************************************************)
(* Properties of write_data, checked under SpecWrite.                      *)
(***************************************************************************)
\* the buffer holds exactly N frames of `channels` slots each
WholeFrames == channels >= 1 /\ Len(output) % channels = 0

\* C4: one invocation of write_data on a buffer for N frames and C >= 1
\* channels writes every one of the N*C slots exactly once and leaves none
\* unwritten; no slot is ever written twice on the way.
C4_EverySlotWrittenOnce ==
    /\ \A i \in 1..Len(output) : writes[i] <= 1
    /\ (wpc = "done" /\ WholeFrames) =>
            \A i \in 1..Len(output) : writes[i] = 1 /\ output[i] # Stale

\* a finished invocation on 2 frames of 3 channels
C4_Witness ==
    /\ wpc = "done"
    /\ channels = 3
    /\ Len(output) = 6
    /\ \A i \in 1..6 : writes[i] = 1

\* C5: every written slot k of every frame holds the frame's left sample when
\* k is even and its right sample when k is odd, (left, right) being the pair
\* of the one next_sample call made for that frame.
C5_ParityFanOut ==
    /\ \A i \in 1..Len(output) :
            writes[i] > 0 =>
                LET f == (i - 1) \div channels
                    k == (i - 1) % channels
                    pair == NextSample(baseCalls + f)
                IN output[i] = FromSample(IF k % 2 = 0 THEN pair[1] ELSE pair[2])
    /\ wpc = "done" =>
            sampleCalls - baseCalls = (Len(output) + channels - 1) \div channels
    /\ wpc = "slots" => sampleCalls - baseCalls = frame + 1

\* a finished invocation on 4 channels: slots 0 and 2 left, 1 and 3 right
C5_Witness ==
    /\ wpc = "done"
    /\ channels = 4
    /\ Len(output) = 4
    /\ output[1] = output[3]
    /\ output[2] = output[4]
    /\ output[1] # output[2]

(***************************************************************************)
(* Properties of main and run, checked under SpecMain and SpecLive.        *)
(***************************************************************************)
\* main has got as far as asking for the output device
PastParsing ==
    mainPc \in {"device", "config", "compile", "build", "play", "set_handler",
                "waiting", "park", "exited", "returned"}

\* C6: the device is acquired and the stream built and started only after
\* lexing and to_ast have both succeeded; after a lexing error or a to_ast
\* error the program terminates (main panics in the unwrap) with no device
\* acquired and no stream built or played.
C6_NoPlaybackWithoutAst ==
    /\ (PastParsing \/ device \/ stream # "none" \/ plays > 0) =>
            (lexResult = "Ok" /\ astResult = "Ok")
    /\ lexResult = "Err" => mainPc = "panicked"
    /\ Failed => mainPc \in {"to_ast", "panicked", "killed"}
    /\ (lexResult = "Err" \/ Failed) => (~device /\ stream = "none" /\ plays = 0)

\* main has panicked on a to_ast error, before any device was asked for
C6_Witness ==
    /\ mainPc = "panicked"
    /\ astResult = "need hz for sin"
    /\ ~device
    /\ stream = "none"

\* C8 as stated: with the stream started exactly once and the handler
\* installed, the main thread leaves thread::park only after the interrupt
\* handler has called unpark; a wake-up no unpark caused does not end the wait.
C8_Original ==
    /\ mainPc \in {"waiting", "park", "exited", "returned"} => (plays = 1 /\ handlerSet)
    /\ mainPc \in {"exited", "returned"} => unparks > 0

\* C10: once the handler is installed, an interrupt sent to it, before the
\* main thread parks or while it is parked, leads to park returning and run
\* returning Ok with the stream dropped; further interrupts do not undo it.
C10_NoLostWakeup ==
    /\ (handlerSet /\ pendingSig > 0) ~> (mainPc = "returned" /\ stream = "dropped")
    /\ [][mainPc = "returned" => mainPc' = "returned"]_vars

\* the handler has run unpark before the main thread called thread::park
C10_Witness ==
    /\ mainPc = "waiting"
    /\ parkToken
    /\ unparks = 1

====
